---- MODULE Spec2Model ----
(***************************************************************************)
(* Model of library/archive.py: the compressed-tar handler TgzArchive      *)
(* (command assembly and classification of tar's diagnostics), the handler *)
(* selector pick_handler and the orchestrator main().                      *)
(*                                                                         *)
(* Text is modelled as follows.  An exclude entry is a sequence of         *)
(* characters (rstrip works on characters).  Every other path or name is a *)
(* string.  A command string is the sequence of its space separated words, *)
(* each word a record [flag, arg, quoted].  An output stream is the        *)
(* sequence of its lines (what splitlines() returns); a line is the        *)
(* message that ends it.                                                   *)
(***************************************************************************)
EXTENDS Integers, Sequences, FiniteSets, TLC

VARIABLES
    params,          \* module.params
    file_args,       \* module.load_file_common_arguments(params): owner, group, mode
    host,            \* the target host: resolvable binaries, uid, directories
    tool,            \* what the external tar answers to the two invocations
    pc,              \* position of the run
    handler,         \* the TgzArchive object (main's `handler`, once bound)
    check_results,   \* value returned by is_archived()
    extract_results, \* value returned (or exception raised) by archive()
    calls,           \* commands handed to module.run_command, in order
    outcome          \* how main() ended: exit_json, fail_json or an exception

vars == <<params, file_args, host, tool, pc, handler, check_results,
          extract_results, calls, outcome>>

(***************************************************************************)
(* Bounds of the model.                                                    *)
(***************************************************************************)
MaxLines == 2      \* lines of stdout and stderr together
MaxExcludes == 2   \* entries of the exclude list
MaxStrLen == 2     \* characters of one exclude entry

(***************************************************************************)
(* Python values.                                                          *)
(***************************************************************************)
None == "None"

\* truth value of an optional string: None and '' are false
Truthy(s) == s # None /\ s # ""

SeqsUpTo(S, n) == UNION {[1..k -> S] : k \in 0..n}

(***************************************************************************)
(* The diagnostics of tar that the module recognises.                      *)
(***************************************************************************)
OWNER_DIFF_RE == ": Uid differs"
GROUP_DIFF_RE == ": Gid differs"
MODE_DIFF_RE == ": Mode differs"
MOD_TIME_DIFF_RE == ": Mod time differs"
MISSING_FILE_RE == ": Warning: Cannot stat: No such file or directory"

\* a diagnostic of tar --diff that no pattern of the module matches
OtherLine == ": Size differs"

Lines == {OWNER_DIFF_RE, GROUP_DIFF_RE, MODE_DIFF_RE, MOD_TIME_DIFF_RE,
          MISSING_FILE_RE, OtherLine}

\* RE.search(line) for a pattern anchored with $ : the line ends in the text
search(re, line) == line = re

(***************************************************************************)
(* TgzArchive                                                              *)
(***************************************************************************)
\* a bug that drops one trailing ch only
rstripMut(s, ch) ==
    IF s # <<>> /\ s[Len(s)] = ch THEN SubSeq(s, 1, Len(s) - 1) ELSE s

\* str.rstrip(ch): drop every trailing ch
RECURSIVE rstrip(_, _)
rstrip(s, ch) ==
    IF s # <<>> /\ s[Len(s)] = ch
    THEN rstrip(SubSeq(s, 1, Len(s) - 1), ch)
    ELSE s

BinPath == [gtar |-> "/usr/bin/gtar", tar |-> "/bin/tar"]

\* module.get_bin_path(name): the path of the binary, None when not found
get_bin_path(h, name) == IF h[name] THEN BinPath[name] ELSE None

\* TgzArchive.__init__
TgzArchive(src, dest, fargs, prm, h) ==
    [src |-> src,
     dest |-> dest,
     file_args |-> fargs,
     opts |-> prm.extra_opts,
     excludes |-> [i \in 1..Len(prm.exclude) |-> rstrip(prm.exclude[i], "/")],
     cmd_path |-> IF Truthy(get_bin_path(h, "gtar"))
                  THEN get_bin_path(h, "gtar")
                  ELSE get_bin_path(h, "tar"),
     zipflag |-> "z",
     compress_mode |-> "gz"]

Tok(flag, arg, quoted) == [flag |-> flag, arg |-> arg, quoted |-> quoted]

\* '%s -c%s' % (self.cmd_path, self.zipflag)
CmdHead(self) == <<Tok("prog", self.cmd_path, FALSE), Tok("-c", self.zipflag, FALSE)>>

\* if self.opts: cmd += ' ' + ' '.join(self.opts)
OptsFlags(self) ==
    IF self.opts # <<>>
    THEN [i \in 1..Len(self.opts) |-> Tok("opt", self.opts[i], FALSE)]
    ELSE <<>>

\* if self.file_args[key]: cmd += ' --key="%s"' % self.file_args[key]
OwnerFlag(self) ==
    IF Truthy(self.file_args.owner)
    THEN <<Tok("--owner", self.file_args.owner, TRUE)>>
    ELSE <<>>

\* a bug that adds the flag without testing the field
GroupFlagMut(self) == <<Tok("--group", self.file_args.group, TRUE)>>

GroupFlag(self) ==
    IF Truthy(self.file_args.group)
    THEN <<Tok("--group", self.file_args.group, TRUE)>>
    ELSE <<>>

ModeFlag(self) ==
    IF Truthy(self.file_args.mode)
    THEN <<Tok("--mode", self.file_args.mode, TRUE)>>
    ELSE <<>>

\* if self.excludes:
\*     cmd += ' --exclude="' + '" --exclude="'.join(self.excludes) + '"'
ExcludeFlags(self) ==
    IF self.excludes # <<>>
    THEN [i \in 1..Len(self.excludes) |-> Tok("--exclude", self.excludes[i], TRUE)]
    ELSE <<>>

\* the command of is_archived
CheckCmd(self) ==
    CmdHead(self) \o OptsFlags(self) \o OwnerFlag(self) \o GroupFlag(self)
        \o ModeFlag(self) \o ExcludeFlags(self)
        \o <<Tok("-f", self.src, TRUE)>>

\* the command of archive
PackCmd(self) ==
    CmdHead(self) \o OptsFlags(self) \o OwnerFlag(self) \o GroupFlag(self)
        \o ModeFlag(self) \o ExcludeFlags(self)
        \o <<Tok("-f", self.dest, TRUE), Tok("operand", self.src, TRUE)>>

\* a bug that forgets the privilege test
KeepOwnerDiffMut(self, run_uid, line) ==
    ~Truthy(self.file_args.owner) /\ search(OWNER_DIFF_RE, line)

\* run_uid == 0 and not self.file_args['owner'] and OWNER_DIFF_RE.search(line)
KeepOwnerDiff(self, run_uid, line) ==
    run_uid = 0 /\ ~Truthy(self.file_args.owner) /\ search(OWNER_DIFF_RE, line)

KeepGroupDiff(self, run_uid, line) ==
    run_uid = 0 /\ ~Truthy(self.file_args.group) /\ search(GROUP_DIFF_RE, line)

\* a bug that reports a mode difference although a mode is requested
KeepModeDiffMut(self, line) == search(MODE_DIFF_RE, line)

KeepModeDiff(self, line) ==
    ~Truthy(self.file_args.mode) /\ search(MODE_DIFF_RE, line)

\* one round of the loop over the lines: what is appended to `out`
LineOut(self, run_uid, line) ==
    (IF KeepOwnerDiff(self, run_uid, line) THEN <<line>> ELSE <<>>)
    \o (IF KeepGroupDiff(self, run_uid, line) THEN <<line>> ELSE <<>>)
    \o (IF KeepModeDiff(self, line) THEN <<line>> ELSE <<>>)
    \o (IF search(MOD_TIME_DIFF_RE, line) THEN <<line>> ELSE <<>>)
    \o (IF search(MISSING_FILE_RE, line) THEN <<line>> ELSE <<>>)

\* for line in old_out.splitlines() + err.splitlines(): ...
RECURSIVE Filter(_, _, _)
Filter(self, run_uid, lines) ==
    IF lines = <<>>
    THEN <<>>
    ELSE LineOut(self, run_uid, Head(lines)) \o Filter(self, run_uid, Tail(lines))

\* TgzArchive.is_archived: the returned dict, given run_command's answer
is_archived(self, run_uid, answer) ==
    LET out == Filter(self, run_uid, answer.out \o answer.err)
    IN  [archived |-> ~(out # <<>>),
         rc |-> answer.rc,
         out |-> out,
         err |-> answer.err,
         cmd |-> CheckCmd(self)]

\* TgzArchive.archive: the returned dict, given run_command's answer
archive(self, answer) ==
    [cmd |-> PackCmd(self), rc |-> answer.rc, out |-> answer.out, err |-> answer.err]

\* TgzArchive.can_handle_archive; the object has the attributes __init__ set
can_handle_archive(self) ==
    IF ~Truthy(self.cmd_path)
    THEN "False"
    ELSE IF "options" \notin DOMAIN self
         THEN "AttributeError"
         ELSE IF "z" \in self.options THEN "True" ELSE "False"

(***************************************************************************)
(* pick_handler and main                                                   *)
(***************************************************************************)
Home == [p \in {"~/data"} |-> "/home/user/data"]

\* os.path.expanduser of a string; of None it raises
expanduser(path) == IF path \in DOMAIN Home THEN Home[path] ELSE path

Msg(text, names) == [text |-> text, names |-> names]

fail_json(kwargs) == [kind |-> "fail_json", kwargs |-> kwargs]
exit_json(kwargs) == [kind |-> "exit_json", kwargs |-> kwargs]
Raised(by) == [kind |-> "exception", kwargs |-> [raised_by |-> by]]
Running == [kind |-> "none", kwargs |-> [none |-> TRUE]]

NotCalled == [called |-> FALSE]

Call(cmd, cwd) == [cmd |-> cmd, cwd |-> cwd]

\* main, from `res_args = dict(...)` to its end, with the handler selected:
\* the result reported, the two dicts and the commands run
main_pack(h, src, dest) ==
    LET res_args == [handler |-> "TgzArchive", dest |-> dest, src |-> src]
        check == is_archived(h, host.run_uid, tool.check)
        extract == archive(h, tool.pack)
        packed == res_args @@ [extract_results |-> extract]
        failed == Msg("failed to pack", <<src, dest>>)
    IN  [check_results |-> check,
         extract_results |-> IF tool.pack.ioerror THEN [raised |-> "IOError"] ELSE extract,
         calls |-> <<Call(check.cmd, None), Call(extract.cmd, h.dest)>>,
         outcome |-> IF tool.pack.ioerror
                     THEN fail_json(res_args @@ [msg |-> failed])
                     ELSE IF extract.rc # 0
                          THEN fail_json(packed @@ [msg |-> failed])
                          ELSE exit_json(packed @@ [changed |-> TRUE])]

\* pick_handler: the only registered handler is TgzArchive
pick_handler(src, dest, fargs, options, prm, h) ==
    LET obj == TgzArchive(src, dest, fargs, prm, h)
        can == can_handle_archive(obj)
    IN  IF can = "AttributeError"
        THEN [kind |-> "exception", obj |-> obj]
        ELSE IF can = "True"
             THEN [kind |-> "return", obj |-> obj]
             ELSE [kind |-> "fail_json", obj |-> obj]

NoHandler == [class |-> "None"]

\* main: the four expanduser/load_file_common_arguments lines
ExpandPaths ==
    /\ pc = "main"
    /\ IF params.change_directory_path = None
       THEN /\ outcome' = Raised("os.path.expanduser")
            /\ pc' = "done"
       ELSE /\ pc' = "check_src"
            /\ UNCHANGED outcome
    /\ UNCHANGED <<params, file_args, host, tool, handler, check_results,
                   extract_results, calls>>

\* main: does the source exist?
CheckSource ==
    /\ pc = "check_src"
    /\ LET src == expanduser(params.src)
       IN  IF src \notin host.isdir
           THEN /\ outcome' = fail_json([msg |-> Msg("Source does not exist", <<src>>)])
                /\ pc' = "done"
           ELSE IF src \notin host.readable
                THEN /\ outcome' = fail_json([msg |-> Msg("Source not readable", <<src>>)])
                     /\ pc' = "done"
                ELSE /\ pc' = "check_cdp"
                     /\ UNCHANGED outcome
    /\ UNCHANGED <<params, file_args, host, tool, handler, check_results,
                   extract_results, calls>>

\* main: is the change directory path, if specified, accessible?
CheckChangeDirectory ==
    /\ pc = "check_cdp"
    /\ LET cdp == expanduser(params.change_directory_path)
       IN  IF Truthy(cdp) /\ cdp \notin host.isdir
           THEN /\ outcome' = fail_json([msg |->
                        Msg("Change directory path does not exist", <<cdp>>)])
                /\ pc' = "done"
           ELSE IF Truthy(cdp) /\ cdp \notin host.readable
                THEN /\ outcome' = fail_json([msg |->
                             Msg("Change directory path not readable", <<cdp>>)])
                     /\ pc' = "done"
                ELSE /\ pc' = "pick"
                     /\ UNCHANGED outcome
    /\ UNCHANGED <<params, file_args, host, tool, handler, check_results,
                   extract_results, calls>>

\* main: handler = pick_handler(...) and everything after it
PickAndPack ==
    /\ pc = "pick"
    /\ LET src == expanduser(params.src)
           dest == expanduser(params.dest)
           picked == pick_handler(src, dest, file_args, params.options, params, host)
           run == main_pack(picked.obj, src, dest)
       IN  IF picked.kind = "exception"
           THEN /\ outcome' = Raised("can_handle_archive")
                /\ UNCHANGED <<handler, check_results, extract_results, calls>>
           ELSE IF picked.kind = "fail_json"
                THEN /\ outcome' = fail_json([msg |->
                             Msg("Failed to find handler", <<src>>)])
                     /\ UNCHANGED <<handler, check_results, extract_results, calls>>
                ELSE /\ handler' = picked.obj
                     /\ check_results' = run.check_results
                     /\ extract_results' = run.extract_results
                     /\ calls' = run.calls
                     /\ outcome' = run.outcome
    /\ pc' = "done"
    /\ UNCHANGED <<params, file_args, host, tool>>

(***************************************************************************)
(* The handler used directly: constructed, then its two operations called. *)
(***************************************************************************)
Construct ==
    /\ pc = "unbound"
    /\ handler' = TgzArchive(params.src, params.dest, file_args, params, host)
    /\ pc' = "built"
    /\ UNCHANGED <<params, file_args, host, tool, check_results, extract_results,
                   calls, outcome>>

IsArchived ==
    /\ pc = "built"
    /\ check_results = NotCalled
    /\ check_results' = is_archived(handler, host.run_uid, tool.check)
    /\ calls' = Append(calls, Call(CheckCmd(handler), None))
    /\ UNCHANGED <<params, file_args, host, tool, pc, handler, extract_results,
                   outcome>>

Archive ==
    /\ pc = "built"
    /\ extract_results = NotCalled
    /\ extract_results' = IF tool.pack.ioerror
                          THEN [raised |-> "IOError"]
                          ELSE archive(handler, tool.pack)
    /\ calls' = Append(calls, Call(PackCmd(handler), handler.dest))
    /\ UNCHANGED <<params, file_args, host, tool, pc, handler, check_results,
                   outcome>>

(***************************************************************************)
(* Inputs.                                                                 *)
(***************************************************************************)
Policies == [owner : {None, "alice"}, group : {None, "staff"}, mode : {None, "0644"}]

Chars == {"a", "/"}
Entries == SeqsUpTo(Chars, MaxStrLen)
ExcludeLists == SeqsUpTo(Entries, MaxExcludes)

\* stdout and stderr of one run of tar, as lines
Outputs(n) ==
    {io \in [out : SeqsUpTo(Lines, n), err : SeqsUpTo(Lines, n)] :
        Len(io.out) + Len(io.err) <= n}

Answer(rc, io, ioerror) ==
    [rc |-> rc, out |-> io.out, err |-> io.err, ioerror |-> ioerror]

Quiet == [out |-> <<>>, err |-> <<>>]

Dirs == {"/data", "/home/user/data", "/work"}

Fresh ==
    /\ handler = NoHandler
    /\ check_results = NotCalled
    /\ extract_results = NotCalled
    /\ calls = <<>>
    /\ outcome = Running

\* one run of the module
Init ==
    /\ params \in [src : {"/data", "~/data"},
                   dest : {"/backup/data.tgz"},
                   options : {{"z"}, {"j"}},
                   change_directory_path : {None, "/work"},
                   exclude : {<<>>, << <<"a", "/">> >>},
                   extra_opts : {<<>>}]
    /\ file_args \in Policies
    /\ host \in [gtar : BOOLEAN, tar : BOOLEAN, run_uid : {0},
                 isdir : SUBSET {expanduser(params.src), "/work"},
                 readable : SUBSET {expanduser(params.src), "/work"}]
    /\ tool \in [check : {Answer(0, Quiet, FALSE)},
                 pack : {Answer(0, Quiet, FALSE), Answer(2, Quiet, FALSE),
                         Answer(0, Quiet, TRUE)}]
    /\ pc = "main"
    /\ Fresh

Next == ExpandPaths \/ CheckSource \/ CheckChangeDirectory \/ PickAndPack

Spec == Init /\ [][Next]_vars

HandlerNext == Construct \/ IsArchived \/ Archive

\* the classifier: every policy, privilege and output of tar
InitClassify ==
    /\ params = [src |-> "/data", dest |-> "/backup/data.tgz", options |-> {"z"},
                 change_directory_path |-> None, exclude |-> <<>>,
                 extra_opts |-> <<>>]
    /\ file_args \in Policies
    /\ host \in [gtar : {TRUE}, tar : {TRUE}, run_uid : {0, 1000},
                 isdir : {Dirs}, readable : {Dirs}]
    /\ tool \in [check : {Answer(rc, io, FALSE) : rc \in {0, 1}, io \in Outputs(MaxLines)},
                 pack : {Answer(0, Quiet, FALSE), Answer(0, Quiet, TRUE)}]
    /\ pc = "unbound"
    /\ Fresh

SpecClassify == InitClassify /\ [][HandlerNext]_vars

\* the command builder: every policy, exclude list and extra option list
InitBuild ==
    /\ params \in [src : {"/data"},
                   dest : {"/backup/data.tgz"},
                   options : {{"z"}},
                   change_directory_path : {None},
                   exclude : ExcludeLists,
                   extra_opts : {<<>>, <<"-v", "--one-file-system">>}]
    /\ file_args \in Policies
    /\ host \in [gtar : BOOLEAN, tar : {TRUE}, run_uid : {0},
                 isdir : {Dirs}, readable : {Dirs}]
    /\ tool \in [check : {Answer(1, [out |-> <<MOD_TIME_DIFF_RE>>, err |-> <<>>], FALSE)},
                 pack : {Answer(0, Quiet, FALSE)}]
    /\ pc = "unbound"
    /\ Fresh

SpecBuild == InitBuild /\ [][HandlerNext]_vars

(***************************************************************************)
(* Properties.                                                             *)
(***************************************************************************)
Elevated == host.run_uid = 0

CheckLines == tool.check.out \o tool.check.err

\* the rule for keeping a line, as the specification words it
ClaimKept(line) ==
    \/ line = ": Uid differs" /\ Elevated /\ file_args.owner = None
    \/ line = ": Gid differs" /\ Elevated /\ file_args.group = None
    \/ line = ": Mode differs" /\ file_args.mode = None
    \/ line = ": Mod time differs"
    \/ line = ": Warning: Cannot stat: No such file or directory"

\* C1: is_archived returns archived = true iff no line of stdout and stderr
\* is kept after suppression; a "Mod time differs" or missing-file line
\* forces archived = false, and empty output gives archived = true.
C1_ArchivedIffNoLineKept ==
    check_results # NotCalled =>
        /\ check_results.archived
               = (\A i \in 1..Len(CheckLines) : ~ClaimKept(CheckLines[i]))
        /\ (\E i \in 1..Len(CheckLines) :
                CheckLines[i] \in {": Mod time differs",
                                   ": Warning: Cannot stat: No such file or directory"})
               => check_results.archived = FALSE
        /\ CheckLines = <<>> => check_results.archived = TRUE

\* an elevated run whose Uid line (stdout) and Mode line (stderr) are both
\* suppressed by the policy
C1_Witness ==
    /\ check_results # NotCalled
    /\ Elevated
    /\ file_args.owner # None
    /\ file_args.mode # None
    /\ tool.check.out = <<": Uid differs">>
    /\ tool.check.err = <<": Mode differs">>
    /\ check_results.archived = TRUE

UidOnlyNonElevated ==
    /\ check_results # NotCalled
    /\ CheckLines = <<": Uid differs">>
    /\ ~Elevated

\* C2 as stated: only a "Uid differs" line, non-elevated run: archived = true
\* without an owner override and archived = false with one.
C2_Original ==
    UidOnlyNonElevated => check_results.archived = (file_args.owner = None)

\* C2 as amended: only a "Uid differs" line, non-elevated run: archived = true
\* whether or not an owner override is present.
C2_UidSuppressedWhenNotElevated ==
    UidOnlyNonElevated => check_results.archived = TRUE

C2_Witness ==
    /\ UidOnlyNonElevated
    /\ file_args.owner # None
    /\ check_results.archived = TRUE

HasFlag(cmd, f) == \E i \in 1..Len(cmd) : cmd[i].flag = f

PolicyFlagsOk(cmd) ==
    /\ HasFlag(cmd, "--owner") <=> file_args.owner # None
    /\ HasFlag(cmd, "--group") <=> file_args.group # None
    /\ HasFlag(cmd, "--mode") <=> file_args.mode # None
    /\ \A i \in 1..Len(cmd) :
           /\ cmd[i].flag = "--owner" => cmd[i].arg = file_args.owner
           /\ cmd[i].flag = "--group" => cmd[i].arg = file_args.group
           /\ cmd[i].flag = "--mode" => cmd[i].arg = file_args.mode
           /\ cmd[i].flag \in {"--owner", "--group", "--mode"}
                  => cmd[i].arg \notin {None, ""}

\* C3: the command of is_archived and the command of archive contain the
\* --owner, --group and --mode flag iff the policy field is set; an unset
\* field produces no flag, not even one with an empty value.
C3_PolicyFlagsIffSet ==
    \A k \in 1..Len(calls) : PolicyFlagsOk(calls[k].cmd)

C3_Witness ==
    /\ Len(calls) = 2
    /\ file_args.owner # None
    /\ file_args.group = None
    /\ file_args.mode = None
    /\ HasFlag(calls[1].cmd, "--owner")
    /\ HasFlag(calls[2].cmd, "--owner")

\* an entry without its trailing separators: the prefix that does not end
\* in a separator and is followed by separators only
ClaimStripped(e) ==
    LET n == CHOOSE k \in 0..Len(e) :
                 /\ k = 0 \/ e[k] # "/"
                 /\ \A j \in (k + 1)..Len(e) : e[j] = "/"
    IN  SubSeq(e, 1, n)

IsExclude(t) == t.flag = "--exclude"

ExcludeFlagsOk(cmd) ==
    LET ex == SelectSeq(cmd, IsExclude)
    IN  /\ Len(ex) = Len(params.exclude)
        /\ \A i \in 1..Len(ex) :
               ex[i] = Tok("--exclude", ClaimStripped(params.exclude[i]), TRUE)
        /\ \A i, j \in 1..Len(cmd) :
               cmd[i].flag = "--exclude" =>
                   /\ cmd[j].flag \in {"--owner", "--group", "--mode"} => j < i
                   /\ cmd[j].flag = "-f" => i < j

\* C8: both commands contain exactly one quoted --exclude flag per entry of
\* the exclude list, in input order, duplicates kept, each with the entry's
\* trailing separators stripped, after the policy flags and before -f; an
\* empty list gives no --exclude flag.
C8_OneExcludePerEntry ==
    \A k \in 1..Len(calls) : ExcludeFlagsOk(calls[k].cmd)

C8_Witness ==
    /\ Len(calls) = 2
    /\ params.exclude = << <<"a", "/">>, <<"a", "/">> >>
    /\ file_args.mode # None
    /\ SelectSeq(calls[1].cmd, IsExclude)
           = << Tok("--exclude", <<"a">>, TRUE), Tok("--exclude", <<"a">>, TRUE) >>

\* C10: the command of is_archived is a list/compare invocation: its mode
\* flag differs from the create flag of the command of archive.
C10_PrecheckIsNotCreate ==
    check_results # NotCalled =>
        check_results.cmd[2] # PackCmd(handler)[2]

SrcPath == expanduser(params.src)

SourceOk == SrcPath \in host.isdir /\ SrcPath \in host.readable

ChangeDirOk ==
    Truthy(params.change_directory_path) =>
        /\ params.change_directory_path \in host.isdir
        /\ params.change_directory_path \in host.readable

ToolResolvable == host.gtar \/ host.tar

Names(o) == IF "msg" \in DOMAIN o.kwargs THEN o.kwargs.msg.names ELSE <<>>

\* C6: a source or a supplied change directory that is not a readable
\* directory makes the run fail with a message naming that path, before a
\* handler is selected and before any command is run.
C6_PreconditionFailure ==
    pc = "done" /\ ~(SourceOk /\ ChangeDirOk) =>
        /\ outcome.kind = "fail_json"
        /\ \/ ~SourceOk /\ Names(outcome) = <<SrcPath>>
           \/ ~ChangeDirOk /\ Names(outcome) = <<params.change_directory_path>>
        /\ handler = NoHandler
        /\ calls = <<>>

\* main gets as far as the call of pick_handler: the change directory path
\* is given (line 289 raises without it) and both directories are readable
PickCalled ==
    /\ params.change_directory_path # None
    /\ SourceOk
    /\ ChangeDirOk

\* C4: when main reaches pick_handler, it returns the first handler whose
\* tool resolves (gtar preferred, tar as fallback); with neither, selection
\* fails with an error naming the source and no handler is returned.
C4_PickFirstResolvable ==
    pc = "done" /\ PickCalled =>
        IF ToolResolvable
        THEN /\ handler # NoHandler
             /\ handler.cmd_path = IF host.gtar THEN BinPath.gtar ELSE BinPath.tar
        ELSE /\ handler = NoHandler
             /\ outcome.kind = "fail_json"
             /\ Names(outcome) = <<SrcPath>>

\* the runs in which a handler is to be selected (C4): main calls
\* pick_handler and gtar or tar resolves
HandlerDue == PickCalled /\ ToolResolvable

PackOk == ~tool.pack.ioerror /\ tool.pack.rc = 0

====
